---- MODULE Spec2Model ----
(***************************************************************************)
(* The quota segment of CCometixLine (src/core/segments/quota.rs):         *)
(* credential resolution, the single-slot endpoint cache, the endpoint     *)
(* detector (try cached endpoint, then probe all) and the mapping of the   *)
(* detection result to SegmentData.                                        *)
(*                                                                         *)
(* Option<T> is a sequence of length 0 (None) or 1 (Some(x)).  Strings     *)
(* that the code inspects (credentials, file contents) are sequences of    *)
(* characters; strings that it only compares or copies are TLA+ strings.   *)
(***************************************************************************)
EXTENDS Integers, Sequences, FiniteSets, TLC

VARIABLES
    sources,          \* the credential sources: env variables, settings.json, api_key file
    disk,             \* the cache file endpoint_cache.json
    now,              \* SystemTime::now(), in seconds
    net,              \* per endpoint URL: does a request to it currently succeed
    overflow_checks,  \* build profile: are integer overflow checks compiled in
    pc,               \* per caller: position in collect
    api_key,          \* per caller: Option<String> returned by load_api_key
    cache,            \* per caller: SmartEndpointDetector.cache
    idx,              \* per caller: position of the probe-all loop in endpoints
    attempts,         \* per caller: the try_endpoint calls of the current collect
    det,              \* per caller: the result of detect_endpoint
    ret,              \* per caller: the Option<SegmentData> returned by collect
    io,               \* per caller: the cache file operations of the current collect
    prev              \* per caller: summary of the caller's previous collect

vars == <<sources, disk, now, net, overflow_checks, pc, api_key, cache, idx,
          attempts, det, ret, io, prev>>

None == <<>>
Some(x) == <<x>>

\* ------------------------------------------------------------------ bounds
\* success_count is a u32; the model keeps the wrap-around but scales the
\* width down: the largest value of the counter.
CountMax == 2

\* ------------------------------------------------------- program constants
Day == 86400
DurationMax == 2147483647

MainUrl == "https://www.packycode.com/api/backend/users/info"
ShareUrl == "https://share.packycode.com/api/backend/users/info"
\* a URL that a cache file may name and that is not a configured endpoint
OtherUrl == "https://other.example/api/backend/users/info"

\* faulty variant: the list in the other order
endpoints_reversed ==
    << [url |-> ShareUrl, name |-> "share"],
       [url |-> MainUrl, name |-> "main"] >>

\* faulty variant: "main" is listed a second time
endpoints_main_twice ==
    << [url |-> MainUrl, name |-> "main"],
       [url |-> ShareUrl, name |-> "share"],
       [url |-> MainUrl, name |-> "main"] >>

\* SmartEndpointDetector::new: the endpoint list
endpoints ==
    << [url |-> MainUrl, name |-> "main"],
       [url |-> ShareUrl, name |-> "share"] >>

Urls == {MainUrl, ShareUrl}

\* the callers (processes running collect)
P1 == "p1"
P2 == "p2"
Procs == {P1, P2}

\* ------------------------------------------------------------ credentials
KeyA == <<"a">>
KeyB == <<"b">>
Empty == <<>>

IsSpace(c) == c = " "

RECURSIVE TrimStart(_)
TrimStart(s) ==
    IF s # <<>> /\ IsSpace(Head(s)) THEN TrimStart(Tail(s)) ELSE s

RECURSIVE TrimEnd(_)
TrimEnd(s) ==
    IF s # <<>> /\ IsSpace(s[Len(s)]) THEN TrimEnd(SubSeq(s, 1, Len(s) - 1)) ELSE s

\* str::trim
Trim(s) == TrimEnd(TrimStart(s))

\* env::var(name): Ok(value) only for a variable that is set (to valid unicode)
EnvVals == {None, Some(Empty), Some(KeyA), Some(KeyB)}

\* a field of the settings "env" object: absent, not a string, or a string
Absent == [kind |-> "absent", s |-> Empty]
NonString == [kind |-> "other", s |-> Empty]
Str(s) == [kind |-> "str", s |-> s]
JsonFields == {Absent, NonString, Str(Empty), Str(KeyA), Str(KeyB)}

\* settings.json: unreadable, not JSON, JSON without "env", JSON with "env"
SettingsMissing == [kind |-> "missing", tok |-> Absent, key |-> Absent]
SettingsMalformed == [kind |-> "malformed", tok |-> Absent, key |-> Absent]
SettingsNoEnv == [kind |-> "noenv", tok |-> Absent, key |-> Absent]
SettingsEnv(t, k) == [kind |-> "env", tok |-> t, key |-> k]
SettingsVals ==
    {SettingsMissing, SettingsMalformed, SettingsNoEnv}
        \cup {SettingsEnv(t, k) : t \in JsonFields, k \in JsonFields}

\* the api_key file: unreadable (None) or its content
KeyFileVals ==
    {None, Some(Empty), Some(<<" ">>), Some(KeyA), Some(<<" ", "a", " ">>),
     Some(<<"b", " ">>)}

AllSources ==
    [packy : EnvVals, anth_key : EnvVals, anth_tok : EnvVals,
     settings : SettingsVals, key_file : KeyFileVals]

NoSources ==
    [packy |-> None, anth_key |-> None, anth_tok |-> None,
     settings |-> SettingsMissing, key_file |-> None]

\* the source configurations the callers of collect run under: none, an
\* env variable holding "a", an api_key file holding "b "
SourceConfigs ==
    { NoSources,
      [NoSources EXCEPT !.packy = Some(KeyA)],
      [NoSources EXCEPT !.settings = SettingsMalformed,
                        !.key_file = Some(<<"b", " ">>)] }

\* QuotaSegment::load_from_settings
load_from_settings(src) ==
    LET st == src.settings IN
    IF st.kind = "env"
    THEN IF st.tok.kind = "str" THEN Some(st.tok.s)
         ELSE IF st.key.kind = "str" THEN Some(st.key.s)
         ELSE None
    ELSE None

\* faulty variant: ANTHROPIC_AUTH_TOKEN is looked up before ANTHROPIC_API_KEY
load_api_key_token_first(src) ==
    IF src.packy # None THEN src.packy
    ELSE IF src.anth_tok # None THEN src.anth_tok
    ELSE IF src.anth_key # None THEN src.anth_key
    ELSE IF load_from_settings(src) # None THEN load_from_settings(src)
    ELSE IF src.key_file # None THEN Some(Trim(src.key_file[1]))
    ELSE None

\* faulty variant: with no source present the resolver yields the empty
\* credential
load_api_key_or_empty(src) ==
    IF src.packy # None THEN src.packy
    ELSE IF src.anth_key # None THEN src.anth_key
    ELSE IF src.anth_tok # None THEN src.anth_tok
    ELSE IF load_from_settings(src) # None THEN load_from_settings(src)
    ELSE IF src.key_file # None THEN Some(Trim(src.key_file[1]))
    ELSE Some(Empty)

\* QuotaSegment::load_api_key
load_api_key(src) ==
    IF src.packy # None THEN src.packy
    ELSE IF src.anth_key # None THEN src.anth_key
    ELSE IF src.anth_tok # None THEN src.anth_tok
    ELSE IF load_from_settings(src) # None THEN load_from_settings(src)
    ELSE IF src.key_file # None THEN Some(Trim(src.key_file[1]))
    ELSE None

\* ------------------------------------------------------------------ cache
CharCode(c) == IF c = "a" THEN 1 ELSE IF c = "b" THEN 2 ELSE 3

\* SmartEndpointDetector::hash_api_key: a deterministic fingerprint of the
\* credential (an encoding that is injective on the credentials of the model).
RECURSIVE hash_api_key(_)
hash_api_key(k) ==
    IF k = <<>> THEN 7
    ELSE hash_api_key(SubSeq(k, 1, Len(k) - 1)) * 4 + CharCode(k[Len(k)])

Times == {0, 1, Day}

\* EndpointCache
Hashes == {hash_api_key(KeyA), hash_api_key(KeyB)}
EndpointCache ==
    [api_key_hash : Hashes, successful_endpoint : Urls \cup {OtherUrl},
     last_success_time : Times, success_count : 0..CountMax]

DummyRec ==
    [api_key_hash |-> hash_api_key(KeyA), successful_endpoint |-> MainUrl,
     last_success_time |-> 0, success_count |-> 0]

\* the cache file: missing, not a serialized EndpointCache, or a serialized one
FileMissing == [kind |-> "missing", rec |-> DummyRec]
FileGarbage == [kind |-> "garbage", rec |-> DummyRec]
FileJson(r) == [kind |-> "json", rec |-> r]
FileStates == {FileMissing, FileGarbage} \cup {FileJson(r) : r \in EndpointCache}

\* faulty variant: the content read is never deserialized into a record
load_cache_dropped(file, read_ok) == None

\* faulty variant: content that is no serialized record yields a record of
\* default values
load_cache_lenient(file, read_ok) ==
    IF read_ok /\ file.kind # "missing" THEN Some(file.rec) ELSE None

\* SmartEndpointDetector::load_cache, given whether read_to_string succeeds
load_cache(file, read_ok) ==
    IF read_ok /\ file.kind # "missing"
    THEN IF file.kind = "json" THEN Some(file.rec) ELSE None
    ELSE None

\* fs::write: done, refused (file untouched), or broken off after the file
\* was truncated
WriteOutcomes == {"ok", "refused", "truncated"}

\* faulty variant: the old file is removed before the new one is written
save_cache_remove_first(c, file, w) ==
    IF c = None THEN file
    ELSE IF w = "ok" THEN FileJson(c[1])
    ELSE IF w = "truncated" THEN FileGarbage
    ELSE FileMissing

\* faulty variant: the record is written field by field into the record the
\* file holds, and the endpoint field is left as it is
save_cache_keep_endpoint(c, file, w) ==
    IF c = None THEN file
    ELSE IF w = "ok"
    THEN IF file.kind = "json"
         THEN FileJson([c[1] EXCEPT
                           !.successful_endpoint = file.rec.successful_endpoint])
         ELSE FileJson(c[1])
    ELSE IF w = "truncated" THEN FileGarbage
    ELSE file

\* SmartEndpointDetector::save_cache
save_cache(c, file, w) ==
    IF c = None THEN file
    ELSE IF w = "ok" THEN FileJson(c[1])
    ELSE IF w = "truncated" THEN FileGarbage
    ELSE file

\* SystemTime::duration_since: Err when the earlier time is later
duration_since(t, earlier) == IF earlier <= t THEN Some(t - earlier) ELSE None

\* faulty variant: the error of duration_since yields the zero duration
unwrap_or_default(opt, d) == IF opt = None THEN 0 ELSE opt[1]

\* Result::unwrap_or
unwrap_or(opt, d) == IF opt = None THEN d ELSE opt[1]

\* faulty variant: a record exactly 24 hours old still counts as valid
is_cache_valid_inclusive(c, key, t) ==
    IF c # None
    THEN LET current_hash == hash_api_key(key)
             cache_age == unwrap_or(duration_since(t, c[1].last_success_time),
                                    DurationMax)
         IN current_hash = c[1].api_key_hash /\ cache_age <= Day
    ELSE FALSE

\* faulty variant: the fingerprint is not compared
is_cache_valid_any_key(c, key, t) ==
    IF c # None
    THEN LET cache_age == unwrap_or(duration_since(t, c[1].last_success_time),
                                    DurationMax)
         IN cache_age < Day
    ELSE FALSE

\* SmartEndpointDetector::is_cache_valid
is_cache_valid(c, key, t) ==
    IF c # None
    THEN LET current_hash == hash_api_key(key)
             cache_age == unwrap_or(duration_since(t, c[1].last_success_time),
                                    DurationMax)
         IN current_hash = c[1].api_key_hash /\ cache_age < Day
    ELSE FALSE

\* ---------------------------------------------------------------- network
\* PackyCodeApiResponse: daily_spent_usd (a string) and opus_enabled
Bodies ==
    { [daily_spent_usd |-> <<"1", "2", ".", "5">>, opus_enabled |-> TRUE],
      [daily_spent_usd |-> <<"n", "/", "a">>, opus_enabled |-> FALSE] }

\* what a request to an endpoint yields: a response with a status and a body
\* (None: a body that is not a PackyCodeApiResponse), or no response at all
Response(st, b) == [result |-> "response", status |-> st, body |-> b]
NoResponse(why) == [result |-> why, status |-> 0, body |-> None]

UpOutcomes == {Response(200, Some(b)) : b \in Bodies}
DownOutcomes ==
    {Response(200, None), NoResponse("transport"), NoResponse("timeout")}
        \cup {Response(204, Some(b)) : b \in Bodies}

NetOutcomes(up) == IF up THEN UpOutcomes ELSE DownOutcomes

\* faulty variant: the status of the response is not looked at
try_endpoint_any_status(o) ==
    IF o.result = "response" THEN o.body ELSE None

\* SmartEndpointDetector::try_endpoint, given what the request yields
try_endpoint(o) ==
    IF o.result = "response"
    THEN IF o.status = 200 THEN o.body ELSE None
    ELSE None

\* --------------------------------------------------------------- detector
\* faulty variant: a URL that is not in the list is taken for the first
\* endpoint
FindEndpoint_or_first(url) ==
    IF \E i \in 1..Len(endpoints) : endpoints[i].url = url
    THEN Some(CHOOSE i \in 1..Len(endpoints) :
                 /\ endpoints[i].url = url
                 /\ \A j \in 1..(i - 1) : endpoints[j].url # url)
    ELSE Some(1)

\* self.endpoints.iter().find(|e| e.url == *cached_endpoint): its position
FindEndpoint(url) ==
    IF \E i \in 1..Len(endpoints) : endpoints[i].url = url
    THEN Some(CHOOSE i \in 1..Len(endpoints) :
                 /\ endpoints[i].url = url
                 /\ \A j \in 1..(i - 1) : endpoints[j].url # url)
    ELSE None

\* faulty variant: the cached branch never returns
cached_hit_returns_never(response) == FALSE

\* detect_endpoint returns from the cached branch exactly when the attempt
\* on the cached endpoint yields a response (if let Some(response) = ...)
cached_hit_returns(response) == response # None

\* faulty variant: the record names the first endpoint of the list
update_cache_first_url(key, url, t) ==
    Some([api_key_hash |-> hash_api_key(key),
          successful_endpoint |-> endpoints[1].url,
          last_success_time |-> t, success_count |-> 1])

\* faulty variant: the success that creates the record is not counted
update_cache_uncounted(key, url, t) ==
    Some([api_key_hash |-> hash_api_key(key), successful_endpoint |-> url,
          last_success_time |-> t, success_count |-> 0])

\* SmartEndpointDetector::update_cache: the record that replaces the cache
update_cache(key, url, t) ==
    Some([api_key_hash |-> hash_api_key(key), successful_endpoint |-> url,
          last_success_time |-> t, success_count |-> 1])

\* cache.success_count += 1 on a u32: None when the addition overflows and
\* overflow checks are compiled in (the thread panics), else the wrapped sum
AddOne(n, checks) ==
    IF n = CountMax
    THEN IF checks THEN None ELSE Some(0)
    ELSE Some(n + 1)

\* SmartEndpointDetector::update_cache_stats: the fields as assigned
update_cache_stats(c, t, n) ==
    Some([c[1] EXCEPT !.last_success_time = t, !.success_count = n])

\* ------------------------------------------------------------- formatting
DigitChars == {"0", "1", "2", "3", "4", "5", "6", "7", "8", "9"}

IsDecimal(s) ==
    /\ \E i \in 1..Len(s) : s[i] \in DigitChars
    /\ \A i \in 1..Len(s) : s[i] \in DigitChars \cup {"."}
    /\ Cardinality({i \in 1..Len(s) : s[i] = "."}) <= 1

DotAt(s) ==
    IF \E i \in 1..Len(s) : s[i] = "." THEN CHOOSE i \in 1..Len(s) : s[i] = "."
    ELSE Len(s) + 1

\* format!("${:.2}", spent) for a decimal string with at most two digits
\* after the point: the integer part, then the fraction padded to two digits
Fixed2(s) ==
    LET d == DotAt(s)
        int == IF d = 1 THEN <<"0">> ELSE SubSeq(s, 1, d - 1)
        frac == SubSeq(s, d + 1, Len(s))
    IN int \o <<".">> \o
       (IF Len(frac) = 0 THEN <<"0", "0">>
        ELSE IF Len(frac) = 1 THEN frac \o <<"0">>
        ELSE SubSeq(frac, 1, 2))

\* faulty variant: a string that does not parse is shown as zero
format_daily_spent_zero(s) ==
    IF IsDecimal(s) THEN <<"$">> \o Fixed2(s) ELSE <<"$", "0", ".", "0", "0">>

\* QuotaSegment::format_daily_spent
format_daily_spent(s) ==
    IF IsDecimal(s) THEN <<"$">> \o Fixed2(s) ELSE <<"$">> \o s

\* QuotaSegment::format_opus_status ("Opus" and a check mark or a cross)
format_opus_status(enabled) == IF enabled THEN "Opus[U+2713]" ELSE "Opus[U+2717]"

BoolToString(b) == IF b THEN "true" ELSE "false"

Offline == <<"O", "f", "f", "l", "i", "n", "e">>

SegmentOk(found) ==
    LET endpoint_url == found[1][1]
        response == found[1][2]
    IN Some([primary |-> format_daily_spent(response.daily_spent_usd),
             secondary |-> format_opus_status(response.opus_enabled),
             metadata |->
                 [raw_spent |-> response.daily_spent_usd,
                  opus_enabled |-> BoolToString(response.opus_enabled),
                  endpoint_used |-> endpoint_url]])

\* faulty variant: total failure is reported like a missing credential
segment_data_none_on_failure(found) ==
    IF found # None THEN SegmentOk(found) ELSE None

\* faulty variant: the offline data carries no status
segment_data_no_status(found) ==
    IF found # None THEN SegmentOk(found)
    ELSE Some([primary |-> Offline, secondary |-> "",
               metadata |-> [status |-> ""]])

\* QuotaSegment::collect, after load_api_key: the SegmentData for the result
\* of detect_endpoint_static (None, or Some(<<endpoint_url, response>>))
segment_data(found) ==
    IF found # None
    THEN SegmentOk(found)
    ELSE Some([primary |-> Offline, secondary |-> "",
               metadata |-> [status |-> "offline"]])

\* ---------------------------------------------------------- state machine
\* the label under which an attempt is logged
Kind(o) ==
    IF o.result # "response" THEN o.result
    ELSE IF o.status # 200 THEN "non200"
    ELSE IF o.body = None THEN "bad_body"
    ELSE "ok"

Attempt(url, phase, o) ==
    [url |-> url, phase |-> phase, ok |-> try_endpoint(o) # None]

\* what is recorded of the current collect: did the read of the cache file
\* succeed, how did the write end, how did the latest failed attempt fail, did
\* the cache file hold a record valid for the credential when the call began,
\* the time of the validity check, and has the environment (clock, network)
\* stayed as it was since the call began
NoIo == [read_ok |-> FALSE, write |-> "none", fault |-> "none",
         valid |-> FALSE, at |-> 0, calm |-> FALSE]

\* what is remembered of the previous collect of a caller.  wrote: it
\* succeeded on sel and its cache write succeeded, at time at.  paired: it
\* began with a valid record in the cache file and the environment has not
\* changed since it began; io_ok: none of its cache file operations failed.
\* A summary that is neither wrote nor paired is NoPrev.
NoPrev == [key |-> None, sel |-> None, ended |-> "none", wrote |-> FALSE,
           at |-> 0, paired |-> FALSE, io_ok |-> FALSE]

Idle(p) == pc[p] = "idle"
Returning(p) == pc[p] \in {"done", "panicked"}

Init ==
    /\ sources = NoSources
    /\ disk \in FileStates
    /\ now \in Times
    /\ net \in [Urls -> BOOLEAN]
    /\ overflow_checks \in BOOLEAN
    /\ pc = [p \in Procs |-> "idle"]
    /\ api_key = [p \in Procs |-> None]
    /\ cache = [p \in Procs |-> None]
    /\ idx = [p \in Procs |-> 0]
    /\ attempts = [p \in Procs |-> <<>>]
    /\ det = [p \in Procs |-> None]
    /\ ret = [p \in Procs |-> None]
    /\ io = [p \in Procs |-> NoIo]
    /\ prev = [p \in Procs |-> NoPrev]

\* collect up to the construction of the detector: load_api_key()?, then
\* SmartEndpointDetector::new() reads the cache file
CollectStart(p) ==
    /\ Idle(p)
    /\ \E s \in SourceConfigs, read_ok \in BOOLEAN :
          LET key == load_api_key(s) IN
          /\ sources' = s
          /\ api_key' = [api_key EXCEPT ![p] = key]
          /\ attempts' = [attempts EXCEPT ![p] = <<>>]
          /\ det' = [det EXCEPT ![p] = None]
          /\ ret' = [ret EXCEPT ![p] = None]
          /\ idx' = [idx EXCEPT ![p] = 0]
          /\ IF key = None
             THEN /\ pc' = [pc EXCEPT ![p] = "done"]
                  /\ cache' = [cache EXCEPT ![p] = None]
                  /\ io' = [io EXCEPT ![p] = NoIo]
             ELSE /\ pc' = [pc EXCEPT ![p] = "cached"]
                  /\ cache' = [cache EXCEPT ![p] = load_cache(disk, read_ok)]
                  /\ io' = [io EXCEPT ![p] =
                         [NoIo EXCEPT
                             !.read_ok = read_ok,
                             !.valid = is_cache_valid(load_cache(disk, TRUE),
                                                      key[1], now),
                             !.calm = TRUE]]
    /\ UNCHANGED <<disk, now, net, overflow_checks, prev>>

\* detect_endpoint, first part: the cache is valid and names a configured
\* endpoint, which is tried
TryCached(p) ==
    /\ pc[p] = "cached"
    /\ is_cache_valid(cache[p], api_key[p][1], now)
    /\ FindEndpoint(cache[p][1].successful_endpoint) # None
    /\ LET cached_endpoint == cache[p][1].successful_endpoint
           endpoint == endpoints[FindEndpoint(cached_endpoint)[1]]
       IN \E o \in NetOutcomes(net[endpoint.url]), w \in WriteOutcomes :
          LET response == try_endpoint(o)
              sum == AddOne(cache[p][1].success_count, overflow_checks)
          IN
          /\ attempts' = [attempts EXCEPT
                             ![p] = Append(@, Attempt(endpoint.url, "cached", o))]
          /\ IF cached_hit_returns(response)
             THEN IF sum = None
                  THEN /\ pc' = [pc EXCEPT ![p] = "panicked"]
                       /\ cache' = [cache EXCEPT ![p] =
                              Some([@[1] EXCEPT !.last_success_time = now])]
                       /\ io' = [io EXCEPT ![p].at = now]
                       /\ UNCHANGED <<disk, det, ret, idx>>
                  ELSE LET c == update_cache_stats(cache[p], now, sum[1]) IN
                       /\ cache' = [cache EXCEPT ![p] = c]
                       /\ disk' = save_cache(c, disk, w)
                       /\ io' = [io EXCEPT ![p].write = w, ![p].at = now]
                       /\ det' = [det EXCEPT
                                     ![p] = Some(<<cached_endpoint, response[1]>>)]
                       /\ ret' = [ret EXCEPT ![p] =
                              segment_data(Some(<<cached_endpoint, response[1]>>))]
                       /\ pc' = [pc EXCEPT ![p] = "done"]
                       /\ UNCHANGED idx
             ELSE /\ w = "ok"
                  /\ pc' = [pc EXCEPT ![p] = "probe"]
                  /\ idx' = [idx EXCEPT ![p] = 1]
                  /\ io' = [io EXCEPT ![p].fault = Kind(o), ![p].at = now]
                  /\ UNCHANGED <<disk, cache, det, ret>>
    /\ UNCHANGED <<sources, now, net, overflow_checks, api_key, prev>>

\* detect_endpoint, first part: the cache is not valid, or names no
\* configured endpoint, and nothing is tried
SkipCached(p) ==
    /\ pc[p] = "cached"
    /\ ~ ( /\ is_cache_valid(cache[p], api_key[p][1], now)
           /\ FindEndpoint(cache[p][1].successful_endpoint) # None )
    /\ pc' = [pc EXCEPT ![p] = "probe"]
    /\ idx' = [idx EXCEPT ![p] = 1]
    /\ io' = [io EXCEPT ![p].at = now]
    /\ UNCHANGED <<sources, disk, now, net, overflow_checks, api_key, cache,
                   attempts, det, ret, prev>>

\* detect_endpoint, second part: one iteration of the loop over endpoints
Probe(p) ==
    /\ pc[p] = "probe"
    /\ LET endpoint == endpoints[idx[p]] IN
       \E o \in NetOutcomes(net[endpoint.url]), w \in WriteOutcomes :
          LET response == try_endpoint(o) IN
          /\ attempts' = [attempts EXCEPT
                             ![p] = Append(@, Attempt(endpoint.url, "probe", o))]
          /\ IF response # None
             THEN LET c == update_cache(api_key[p][1], endpoint.url, now) IN
                  /\ cache' = [cache EXCEPT ![p] = c]
                  /\ disk' = save_cache(c, disk, w)
                  /\ io' = [io EXCEPT ![p].write = w]
                  /\ det' = [det EXCEPT ![p] = Some(<<endpoint.url, response[1]>>)]
                  /\ ret' = [ret EXCEPT ![p] =
                         segment_data(Some(<<endpoint.url, response[1]>>))]
                  /\ pc' = [pc EXCEPT ![p] = "done"]
                  /\ UNCHANGED idx
             ELSE /\ w = "ok"
                  /\ io' = [io EXCEPT ![p].fault = Kind(o)]
                  /\ UNCHANGED <<disk, cache, det>>
                  /\ IF idx[p] < Len(endpoints)
                     THEN /\ idx' = [idx EXCEPT ![p] = @ + 1]
                          /\ UNCHANGED <<pc, ret>>
                     ELSE /\ ret' = [ret EXCEPT ![p] = segment_data(None)]
                          /\ pc' = [pc EXCEPT ![p] = "done"]
                          /\ UNCHANGED idx
    /\ UNCHANGED <<sources, now, net, overflow_checks, api_key, prev>>

Summary(p) ==
    LET wrote == det[p] # None /\ io[p].write = "ok"
        paired == io[p].valid /\ io[p].calm
    IN IF ~ wrote /\ ~ paired THEN NoPrev
       ELSE [key |-> api_key[p],
             sel |-> IF det[p] # None THEN Some(det[p][1][1]) ELSE None,
             ended |-> pc[p],
             wrote |-> wrote,
             at |-> IF wrote THEN cache[p][1].last_success_time ELSE 0,
             paired |-> paired,
             io_ok |-> paired /\ io[p].read_ok /\ io[p].write \in {"none", "ok"}]

\* the environment changes: no summary describes an undisturbed call any more
Disturbed(s) ==
    IF s.wrote THEN [s EXCEPT !.paired = FALSE, !.io_ok = FALSE] ELSE NoPrev

\* collect has returned (or the thread has panicked): the detector and
\* the result are dropped
Return(p) ==
    /\ Returning(p)
    /\ pc' = [pc EXCEPT ![p] = "idle"]
    /\ api_key' = [api_key EXCEPT ![p] = None]
    /\ cache' = [cache EXCEPT ![p] = None]
    /\ idx' = [idx EXCEPT ![p] = 0]
    /\ attempts' = [attempts EXCEPT ![p] = <<>>]
    /\ det' = [det EXCEPT ![p] = None]
    /\ ret' = [ret EXCEPT ![p] = None]
    /\ io' = [io EXCEPT ![p] = NoIo]
    /\ prev' = [prev EXCEPT ![p] = Summary(p)]
    /\ UNCHANGED <<sources, disk, now, net, overflow_checks>>

\* the clock is set to another time (it may also be set back); the return of
\* a call is an instant, during which the environment does not move
Tick ==
    /\ \A p \in Procs : ~ Returning(p)
    /\ \E t \in Times \ {now} : now' = t
    /\ io' = [p \in Procs |-> [io[p] EXCEPT !.calm = FALSE]]
    /\ prev' = [p \in Procs |-> Disturbed(prev[p])]
    /\ UNCHANGED <<sources, disk, net, overflow_checks, pc, api_key, cache, idx,
                   attempts, det, ret>>

\* an endpoint becomes reachable or unreachable
NetChange ==
    /\ \A p \in Procs : ~ Returning(p)
    /\ \E u \in Urls : net' = [net EXCEPT ![u] = ~ @]
    /\ io' = [p \in Procs |-> [io[p] EXCEPT !.calm = FALSE]]
    /\ prev' = [p \in Procs |-> Disturbed(prev[p])]
    /\ UNCHANGED <<sources, disk, now, overflow_checks, pc, api_key, cache, idx,
                   attempts, det, ret>>

\* load_api_key on its own, for the credential sources of the state
Resolve(p) ==
    /\ pc[p] = "idle"
    /\ api_key' = [api_key EXCEPT ![p] = load_api_key(sources)]
    /\ pc' = [pc EXCEPT ![p] = "resolved"]
    /\ UNCHANGED <<sources, disk, now, net, overflow_checks, cache, idx,
                   attempts, det, ret, io, prev>>

\* one caller at a time: a statusline refreshed on each prompt
Next ==
    \/ CollectStart(P1)
    \/ TryCached(P1)
    \/ SkipCached(P1)
    \/ Probe(P1)
    \/ Return(P1)
    \/ Tick
    \/ NetChange

Spec == Init /\ [][Next]_vars

\* the credential resolver alone, over every combination of the sources
InitResolver ==
    /\ sources \in AllSources
    /\ disk = FileMissing
    /\ now = 0
    /\ net = [u \in Urls |-> TRUE]
    /\ overflow_checks = FALSE
    /\ pc = [p \in Procs |-> "idle"]
    /\ api_key = [p \in Procs |-> None]
    /\ cache = [p \in Procs |-> None]
    /\ idx = [p \in Procs |-> 0]
    /\ attempts = [p \in Procs |-> <<>>]
    /\ det = [p \in Procs |-> None]
    /\ ret = [p \in Procs |-> None]
    /\ io = [p \in Procs |-> NoIo]
    /\ prev = [p \in Procs |-> NoPrev]

NextResolver == Resolve(P1)

SpecResolver == InitResolver /\ [][NextResolver]_vars

\* two processes, each running collect once, against the same cache file,
\* which is missing or holds a record one second old; the load of the file,
\* every endpoint attempt and the write that follows a success are steps
\* that interleave in any order; clock and network stay as they are for the
\* time of the two calls.  fs::write truncates and then writes: a write torn
\* by the write of the other process leaves what the outcome "truncated"
\* leaves, and a read that falls between truncation and write yields what a
\* failed read yields
ConcurrentFiles ==
    {FileMissing} \cup
        {FileJson(r) : r \in {c \in EndpointCache :
                                 /\ c.last_success_time = 0
                                 /\ c.successful_endpoint \in Urls}}

InitConcurrent ==
    /\ sources = NoSources
    /\ disk \in ConcurrentFiles
    /\ now = 1
    /\ net \in [Urls -> BOOLEAN]
    /\ overflow_checks \in BOOLEAN
    /\ pc = [p \in Procs |-> "idle"]
    /\ api_key = [p \in Procs |-> None]
    /\ cache = [p \in Procs |-> None]
    /\ idx = [p \in Procs |-> 0]
    /\ attempts = [p \in Procs |-> <<>>]
    /\ det = [p \in Procs |-> None]
    /\ ret = [p \in Procs |-> None]
    /\ io = [p \in Procs |-> NoIo]
    /\ prev = [p \in Procs |-> NoPrev]

NextConcurrent ==
    \/ \E p \in Procs : CollectStart(p)
    \/ \E p \in Procs : TryCached(p)
    \/ \E p \in Procs : SkipCached(p)
    \/ \E p \in Procs : Probe(p)

SpecConcurrent == InitConcurrent /\ [][NextConcurrent]_vars

\* ------------------------------------------------------------ properties
IsProbe(a) == a.phase = "probe"

\* the attempts of the probe-all loop of the current call
ProbeAttempts(p) == SelectSeq(attempts[p], IsProbe)

\* the call began with a valid cache record whose endpoint attempt succeeded
CachedHit(p) ==
    /\ attempts[p] # <<>>
    /\ attempts[p][1].phase = "cached"
    /\ attempts[p][1].ok

\* the endpoint selected by the call, if any
Selected(p) == IF det[p] # None THEN Some(det[p][1][1]) ELSE None

OfflineData ==
    [primary |-> Offline, secondary |-> "", metadata |-> [status |-> "offline"]]

\* C1: in a call whose cached endpoint attempt succeeds, that attempt is the
\* only endpoint attempt of the call: the probe-all loop never starts and no
\* other endpoint is contacted.
C1_CachedSuccessOnlyAttempt ==
    \A p \in Procs :
        CachedHit(p) =>
            /\ Len(attempts[p]) = 1
            /\ ProbeAttempts(p) = <<>>
            /\ idx[p] = 0
            /\ pc[p] \in {"done", "panicked"}

\* C1 witness: a call returned after a successful attempt on the cached
\* endpoint "share" while "main" was reachable too.
C1_Witness ==
    /\ pc[P1] = "done"
    /\ CachedHit(P1)
    /\ attempts[P1][1].url = ShareUrl
    /\ net[MainUrl]
    /\ det[P1] # None

\* C2: when the call does not end on the cached endpoint, probe-all attempts
\* the endpoints in list order, "main" then "share"; every attempt before the
\* last one failed; a successful call returns the endpoint of the last attempt,
\* which succeeded; a call that yields no endpoint has attempted every endpoint
\* of the list.
C2_ProbeAllInOrder ==
    \A p \in Procs :
        LET pa == ProbeAttempts(p) IN
        /\ Len(pa) <= 2
        /\ Len(pa) >= 1 => pa[1].url = MainUrl
        /\ Len(pa) >= 2 => pa[2].url = ShareUrl
        /\ \A i \in 1..(Len(pa) - 1) : ~ pa[i].ok
        /\ (pc[p] = "done" /\ api_key[p] # None /\ ~ CachedHit(p)) =>
              /\ pa # <<>>
              /\ det[p] # None =>
                    /\ pa[Len(pa)].ok
                    /\ det[p][1][1] = pa[Len(pa)].url
              /\ det[p] = None =>
                    /\ Len(pa) = Len(endpoints)
                    /\ \A i \in 1..Len(pa) : ~ pa[i].ok

\* C2 witness: the cached endpoint "share" failed, then "main" failed, then
\* "share" succeeded and was returned.
C2_Witness ==
    /\ pc[P1] = "done"
    /\ Len(attempts[P1]) = 3
    /\ attempts[P1][1].phase = "cached"
    /\ ~ attempts[P1][1].ok
    /\ ~ attempts[P1][2].ok
    /\ attempts[P1][3].ok
    /\ det[P1] # None
    /\ det[P1][1][1] = ShareUrl

\* C3: when a call returns success, the detector's cache record names the
\* endpoint whose attempt succeeded and carries the fingerprint of the
\* credential of the call; when the write of the record succeeded the cache
\* file holds that record.
C3_CacheReflectsSuccess ==
    \A p \in Procs :
        (pc[p] = "done" /\ det[p] # None) =>
            /\ attempts[p] # <<>>
            /\ attempts[p][Len(attempts[p])].ok
            /\ det[p][1][1] = attempts[p][Len(attempts[p])].url
            /\ cache[p] # None
            /\ cache[p][1].successful_endpoint = attempts[p][Len(attempts[p])].url
            /\ cache[p][1].api_key_hash = hash_api_key(api_key[p][1])
            /\ io[p].write = "ok" => disk = FileJson(cache[p][1])

\* C3 witness: a call with credential "b" succeeded on the fallback path on
\* "share" and its record was written to the cache file.
C3_Witness ==
    /\ pc[P1] = "done"
    /\ det[P1] # None
    /\ det[P1][1][1] = ShareUrl
    /\ ~ CachedHit(P1)
    /\ io[P1].write = "ok"
    /\ api_key[P1] = Some(KeyB)
    /\ disk.rec.api_key_hash = hash_api_key(KeyB)

\* C4: a call with a resolved credential in which every endpoint attempt
\* failed returns Some(SegmentData) with primary "Offline", secondary "" and
\* metadata {status: "offline"}.
C4_AllFailedIsOffline ==
    \A p \in Procs :
        ( /\ pc[p] = "done"
          /\ api_key[p] # None
          /\ \A i \in 1..Len(attempts[p]) : ~ attempts[p][i].ok ) =>
            ret[p] = Some(OfflineData)

\* C4 witness: the cached endpoint and both endpoints of the list failed, the
\* last one with a status other than 200, and the call returned.
C4_Witness ==
    /\ pc[P1] = "done"
    /\ api_key[P1] # None
    /\ Len(attempts[P1]) = 3
    /\ \A i \in 1..3 : ~ attempts[P1][i].ok
    /\ io[P1].fault = "non200"
    /\ ret[P1] = Some(OfflineData)

\* C5: collect returns None exactly when load_api_key found no credential; a
\* call without credential never returns the "Offline" data and contacts no
\* endpoint.
C5_NoneIffNoCredential ==
    \A p \in Procs :
        pc[p] = "done" =>
            /\ ret[p] = None <=> api_key[p] = None
            /\ api_key[p] = None => attempts[p] = <<>>

\* C5 witness: collect returned None with no credential source present.
C5_Witness ==
    /\ pc[P1] = "done"
    /\ sources = NoSources
    /\ api_key[P1] = None
    /\ ret[P1] = None

\* C6: no call ever ends in a panic.
C6_NeverPanics == \A p \in Procs : pc[p] # "panicked"

\* validity as the claim words it: same fingerprint and now - last_success_time
\* under 24 hours
ValidAsClaimed(c, key, t) ==
    /\ c # None
    /\ hash_api_key(key) = c[1].api_key_hash
    /\ t - c[1].last_success_time < Day

\* validity with the record's time not later than the clock
ValidNotFuture(c, key, t) ==
    /\ ValidAsClaimed(c, key, t)
    /\ c[1].last_success_time <= t

\* the call has gone through the cached branch of detect_endpoint and has not
\* yet replaced its record
PastCachedBranch(p) == pc[p] = "probe"

TriedCached(p) == attempts[p] # <<>> /\ attempts[p][1].phase = "cached"

NextCallWithin24h(p) ==
    /\ pc[p] \in {"probe", "done", "panicked"}
    /\ prev[p].wrote
    /\ api_key[p] = prev[p].key
    /\ prev[p].at <= io[p].at
    /\ io[p].at - prev[p].at < Day

AttemptsFirst(p, url) == attempts[p] # <<>> /\ attempts[p][1].url = url

\* C8 as claimed: after a success on E whose cache write succeeded, the next
\* call with the same credential less than 24h later attempts E first.
C8_NextCallTriesCachedFirst ==
    \A p \in Procs :
        NextCallWithin24h(p) => AttemptsFirst(p, prev[p].sel[1])

\* C8 amended: after a success on E whose cache write succeeded, the next
\* call with the same credential less than 24h later attempts E first,
\* provided that call's read of the cache file succeeds.
C8_NextCallTriesCachedFirstIfRead ==
    \A p \in Procs :
        (NextCallWithin24h(p) /\ io[p].read_ok) =>
            AttemptsFirst(p, prev[p].sel[1])

\* C8 witness: the previous call succeeded on "share"; the next call, one
\* second later, tried "share" first although "main" was reachable.
C8_Witness ==
    /\ NextCallWithin24h(P1)
    /\ io[P1].read_ok
    /\ prev[P1].sel = Some(ShareUrl)
    /\ prev[P1].at = 0
    /\ io[P1].at = 1
    /\ net[MainUrl]
    /\ AttemptsFirst(P1, ShareUrl)

\* the current call of p has ended; the previous call of p had the same
\* credential and began with a valid record in the cache file; clock and
\* network have not changed since the previous call began
SecondOfPair(p) ==
    /\ Returning(p)
    /\ prev[p].paired
    /\ api_key[p] = prev[p].key

SameSelection(p) == pc[p] = prev[p].ended /\ Selected(p) = prev[p].sel

\* C9: two calls in immediate succession with the same credential, beginning
\* with a valid, fresh cache record and with the network unchanged, end the
\* same way and select the same endpoint.  Stated for calls whose cache file
\* operations succeed (the first call's read and write, the second call's
\* read).
C9_TwiceSameSelection ==
    \A p \in Procs :
        (SecondOfPair(p) /\ prev[p].io_ok /\ io[p].read_ok) => SameSelection(p)

\* the string fields the settings file offers under "env"
SettingsStrings(src) ==
    IF src.settings.kind = "env"
    THEN {f.s : f \in {g \in {src.settings.tok, src.settings.key} : g.kind = "str"}}
    ELSE {}

\* C10: the resolver returns the value of the first present source in the
\* order PACKYCODE_API_KEY, ANTHROPIC_API_KEY, ANTHROPIC_AUTH_TOKEN, a string
\* field of settings.json env, the trimmed api_key file; a settings file that
\* is missing, malformed or offers no string field is passed over; None when
\* no source is present.
C10_ResolverPriority ==
    pc[P1] = "resolved" =>
        LET r == api_key[P1]
            no_env == /\ sources.packy = None
                      /\ sources.anth_key = None
                      /\ sources.anth_tok = None
        IN /\ sources.packy # None => r = sources.packy
           /\ (sources.packy = None /\ sources.anth_key # None) =>
                 r = sources.anth_key
           /\ ( /\ sources.packy = None
                /\ sources.anth_key = None
                /\ sources.anth_tok # None ) => r = sources.anth_tok
           /\ (no_env /\ SettingsStrings(sources) # {}) =>
                 (r # None /\ r[1] \in SettingsStrings(sources))
           /\ ( /\ no_env
                /\ SettingsStrings(sources) = {}
                /\ sources.key_file # None ) =>
                 r = Some(Trim(sources.key_file[1]))
           /\ ( /\ no_env
                /\ SettingsStrings(sources) = {}
                /\ sources.key_file = None ) => r = None

\* C10 witness: no env variable, a malformed settings file, and the api_key
\* file " a " resolved to "a".
C10_Witness ==
    /\ pc[P1] = "resolved"
    /\ sources.packy = None
    /\ sources.anth_key = None
    /\ sources.anth_tok = None
    /\ sources.settings = SettingsMalformed
    /\ sources.key_file = Some(<<" ", "a", " ">>)
    /\ api_key[P1] = Some(KeyA)

\* C11: the resolver never returns an empty credential: when no source
\* yields a non-empty string (an env variable set to "", an empty settings
\* field, an api_key file that is empty or only whitespace count as yielding
\* nothing) it returns None.
C11_NeverEmptyCredential ==
    pc[P1] = "resolved" => api_key[P1] # Some(Empty)

\* the step is p's attempt on the cached endpoint, and the attempt succeeds
CachedHitStep(p) ==
    /\ pc[p] = "cached"
    /\ attempts'[p] # attempts[p]
    /\ attempts'[p][1].ok

\* C12: the step of a successful attempt on the cached endpoint increments
\* the record's success_count by exactly 1 and sets last_success_time to the
\* clock, leaves api_key_hash and successful_endpoint as they were, and the
\* record so updated is the one written to the cache file.
C12_CachedHitUpdatesStats ==
    [][ \A p \in Procs :
          CachedHitStep(p) =>
              /\ cache'[p] =
                    Some([cache[p][1] EXCEPT
                             !.success_count = @ + 1,
                             !.last_success_time = now])
              /\ io'[p].write = "ok" => disk' = FileJson(cache'[p][1]) ]_vars

\* the call succeeded in the probe-all loop
ProbeSuccess(p) == pc[p] = "done" /\ det[p] # None /\ ~ CachedHit(p)

\* C13: when a call succeeds in the probe-all loop, the detector's record is
\* a new one whatever it held before: success_count 1, last_success_time the
\* clock, the fingerprint of the call's credential and the URL of the
\* endpoint that succeeded; that record is the one written to the cache file.
C13_ProbeSuccessReplacesRecord ==
    \A p \in Procs :
        ProbeSuccess(p) =>
            /\ cache[p] =
                  Some([api_key_hash |-> hash_api_key(api_key[p][1]),
                        successful_endpoint |-> attempts[p][Len(attempts[p])].url,
                        last_success_time |-> now,
                        success_count |-> 1])
            /\ io[p].write = "ok" => disk = FileJson(cache[p][1])

\* C13 witness: the valid record named "share" and was read at time 1; the
\* attempt on "share" failed, "main" failed, "share" then succeeded in the
\* loop at time 1 and the record was written anew.
C13_Witness ==
    /\ ProbeSuccess(P1)
    /\ TriedCached(P1)
    /\ attempts[P1][1].url = ShareUrl
    /\ Len(attempts[P1]) = 3
    /\ attempts[P1][3].url = ShareUrl
    /\ now = 1
    /\ io[P1].write = "ok"
    /\ disk.rec.success_count = 1

\* the step is an endpoint attempt of p, and the attempt fails
FailedAttemptStep(p) ==
    /\ attempts'[p] # attempts[p]
    /\ attempts'[p] # <<>>
    /\ ~ attempts'[p][Len(attempts'[p])].ok

\* the steps of which a call of total failure consists leave the record as
\* it is, in the detector and in the cache file
FailureKeepsRecord ==
    \A p \in Procs :
        (FailedAttemptStep(p) \/ (pc[p] = "cached" /\ pc'[p] = "probe")) =>
            /\ disk' = disk
            /\ cache'[p] = cache[p]

\* C14: a call that ends in total failure leaves the cache record unchanged
\* in memory and on disk, and no step of any detection call removes a record
\* that the cache file holds.
C14_RecordKeptOnFailure ==
    [][ /\ FailureKeepsRecord
        /\ disk.kind = "json" => disk'.kind = "json" ]_vars

\* C14 amended: a call that ends in total failure leaves the cache record
\* unchanged in memory and on disk, and no step of a detection call removes
\* a record that the cache file holds, except a cache write that breaks off
\* after it truncated the file.
C14_RecordKeptUnlessWriteBreaks ==
    [][ /\ FailureKeepsRecord
        /\ disk.kind = "json" =>
              \/ disk'.kind = "json"
              \/ \E p \in Procs : io'[p].write = "truncated" ]_vars

\* C14 witness: a call read a valid record, the cached endpoint and both
\* endpoints of the list failed, and detector and cache file still hold
\* that record.
C14_Witness ==
    /\ pc[P1] = "done"
    /\ det[P1] = None
    /\ Len(attempts[P1]) = 3
    /\ cache[P1] # None
    /\ disk = FileJson(cache[P1][1])
    /\ io[P1].write = "none"

\* the previous call of p succeeded and wrote its record; the current call
\* of p has a credential of another fingerprint
AfterOtherCredential(p) ==
    /\ prev[p].wrote
    /\ api_key[p] # None
    /\ hash_api_key(api_key[p][1]) # hash_api_key(prev[p].key[1])

\* the record of a call that succeeded by probing: entirely the call's
NewRecord(p) ==
    [api_key_hash |-> hash_api_key(api_key[p][1]),
     successful_endpoint |-> det[p][1][1],
     last_success_time |-> now,
     success_count |-> 1]

\* a call that follows a success of another credential finds no valid
\* record and goes straight to probe-all
NoRecordForOther(p) ==
    AfterOtherCredential(p) =>
        /\ pc[p] = "cached" => ~ is_cache_valid(cache[p], api_key[p][1], now)
        /\ ~ TriedCached(p)

AttemptsOn(p, url, phase) ==
    {i \in 1..Len(attempts[p]) :
        attempts[p][i].url = url /\ attempts[p][i].phase = phase}

\* C16: a call makes at most as many endpoint attempts as there are
\* configured endpoints, also when it starts with a valid cache record
\* whose endpoint fails.
C16_AtMostOneAttemptPerEndpoint ==
    \A p \in Procs : Len(attempts[p]) <= Len(endpoints)

\* C16 amended: a call makes at most one attempt on the cached endpoint and
\* at most one attempt per configured endpoint in the probe-all loop, hence
\* at most one attempt more than there are configured endpoints.
C16_AtMostOneMoreThanEndpoints ==
    \A p \in Procs :
        /\ Len(attempts[p]) <= Len(endpoints) + 1
        /\ \A i \in 2..Len(attempts[p]) : attempts[p][i].phase = "probe"
        /\ \A u \in Urls : Cardinality(AttemptsOn(p, u, "probe")) <= 1

\* C16 witness: the valid record named "main"; "main" failed as the cached
\* endpoint, failed again as the first endpoint of the loop, and "share"
\* failed: three attempts, two configured endpoints.
C16_Witness ==
    /\ pc[P1] = "done"
    /\ Len(attempts[P1]) = Len(endpoints) + 1
    /\ attempts[P1][1].phase = "cached"
    /\ attempts[P1][1].url = MainUrl
    /\ attempts[P1][2].url = MainUrl
    /\ det[P1] = None

\* the step is an endpoint attempt of p
AttemptStep(p) == attempts'[p] # attempts[p] /\ attempts'[p] # <<>>

FailureKinds == {"non200", "transport", "timeout", "bad_body"}

\* after a failed attempt the call goes on: from the cached endpoint to the
\* first endpoint of the list, from an endpoint of the list to the next one,
\* from the last one to the "Offline" result
GoesOn(p, a) ==
    IF a.phase = "cached"
    THEN pc'[p] = "probe" /\ idx'[p] = 1
    ELSE IF idx[p] < Len(endpoints)
    THEN pc'[p] = "probe" /\ idx'[p] = idx[p] + 1
    ELSE pc'[p] = "done" /\ ret'[p] = Some(OfflineData)

\* C17: an endpoint attempt succeeds exactly when the request is answered
\* with status 200 and a body that parses (net[url]: the endpoint answers
\* so); an attempt that fails, by another status, a transport error, a
\* timeout or a body that does not parse, is the failure of that endpoint
\* only: the call goes on with the next endpoint, and neither the detector's
\* record nor the cache file is changed by the step.
C17_FailureOfThatEndpointOnly ==
    [][ \A p \in Procs :
          AttemptStep(p) =>
              LET a == attempts'[p][Len(attempts'[p])] IN
              /\ a.ok <=> net[a.url]
              /\ ~ a.ok =>
                    /\ io'[p].fault \in FailureKinds
                    /\ GoesOn(p, a)
                    /\ det'[p] = None
                    /\ cache'[p] = cache[p]
                    /\ disk' = disk ]_vars

\* C17 witness: "main" answered 200 with a body that does not parse, the
\* loop went on to "share", which succeeded; the record names "share".
C17_Witness ==
    /\ pc[P1] = "done"
    /\ Len(attempts[P1]) = 2
    /\ ~ attempts[P1][1].ok
    /\ attempts[P1][1].url = MainUrl
    /\ io[P1].fault = "bad_body"
    /\ attempts[P1][2].ok
    /\ det[P1] # None
    /\ cache[P1][1].successful_endpoint = ShareUrl

\* p has read the cache file, and the read failed or the content read is no
\* serialized record
CacheNotLoaded(p) ==
    pc[p] = "cached" /\ (~ io[p].read_ok \/ disk.kind # "json")

FailedWrites == WriteOutcomes \ {"ok"}

\* C18: failures of the cache file operations do not change what the call
\* yields.  A file that cannot be read or parsed leaves the detector with
\* what a missing file leaves it with, and the call goes to probe-all
\* without an attempt; a call whose cache write fails has ended without
\* panic, returns the endpoint whose attempt succeeded and the SegmentData
\* made from that endpoint's response, and its detector holds the updated
\* record.
C18_PersistenceFailuresSwallowed ==
    [][ \A p \in Procs :
          /\ CacheNotLoaded(p) =>
                /\ cache[p] = load_cache(FileMissing, TRUE)
                /\ pc'[p] # pc[p] =>
                      /\ pc'[p] = "probe"
                      /\ idx'[p] = 1
                      /\ attempts'[p] = <<>>
          /\ io[p].write \in FailedWrites =>
                /\ pc[p] = "done"
                /\ attempts[p][Len(attempts[p])].ok
                /\ det[p] # None
                /\ det[p][1][1] = attempts[p][Len(attempts[p])].url
                /\ ret[p] = segment_data(det[p])
                /\ ret[p] # Some(OfflineData)
                /\ cache[p] # None
                /\ cache[p][1].successful_endpoint = det[p][1][1] ]_vars

\* C18 witness: the cache file held a valid record naming "share" but could
\* not be read; the call probed, succeeded on "main", its write was refused,
\* and it returned the data of "main"; the file still holds the old record.
C18_Witness ==
    /\ pc[P1] = "done"
    /\ io[P1].valid
    /\ ~ io[P1].read_ok
    /\ ~ TriedCached(P1)
    /\ io[P1].write = "refused"
    /\ det[P1] # None
    /\ det[P1][1][1] = MainUrl
    /\ ret[P1] # None
    /\ ret[P1][1].metadata.endpoint_used = MainUrl
    /\ disk.kind = "json"
    /\ disk.rec.successful_endpoint = ShareUrl

\* the characters of which the strings that str::parse::<f64> accepts are
\* made: digits, point, sign, exponent, and the letters of inf, infinity, nan
F64Chars ==
    DigitChars \cup {".", "+", "-", "e", "E", "i", "n", "f", "t", "y", "a",
                     "I", "N", "F", "T", "Y", "A"}

\* a string that does not parse as a number
NoNumber(s) == \E i \in 1..Len(s) : s[i] \notin F64Chars

\* C20: a call whose detection succeeded returns Some(SegmentData) whose
\* metadata carries the spend string as received, the flag as "true" or
\* "false", and the URL of the endpoint whose attempt succeeded; when the
\* spend string does not parse as a number, primary is "$" followed by the
\* spend string unchanged.
C20_DataOnSuccess ==
    \A p \in Procs :
        (pc[p] = "done" /\ det[p] # None) =>
            LET response == det[p][1][2]
                raw == response.daily_spent_usd
            IN /\ ret[p] # None
               /\ ret[p][1].metadata.raw_spent = raw
               /\ ret[p][1].metadata.opus_enabled
                     = (IF response.opus_enabled THEN "true" ELSE "false")
               /\ ret[p][1].metadata.endpoint_used
                     = attempts[p][Len(attempts[p])].url
               /\ attempts[p][Len(attempts[p])].ok
               /\ NoNumber(raw) => ret[p][1].primary = <<"$">> \o raw
               /\ raw = <<"1", "2", ".", "5">> =>
                     ret[p][1].primary = <<"$", "1", "2", ".", "5", "0">>

\* C20 witness: "share" answered with the spend string "n/a"; collect
\* returned primary "$n/a" and the metadata of that response.
C20_Witness ==
    /\ pc[P1] = "done"
    /\ det[P1] # None
    /\ det[P1][1][1] = ShareUrl
    /\ det[P1][1][2].daily_spent_usd = <<"n", "/", "a">>
    /\ ret[P1] # None
    /\ ret[P1][1].primary = <<"$", "n", "/", "a">>
    /\ ret[P1][1].metadata.raw_spent = <<"n", "/", "a">>
    /\ ret[P1][1].metadata.opus_enabled = "false"
    /\ ret[P1][1].metadata.endpoint_used = ShareUrl

\* p holds a valid record that names a URL which is no configured endpoint
ValidUnknownUrl(p) ==
    /\ pc[p] = "cached"
    /\ is_cache_valid(cache[p], api_key[p][1], now)
    /\ cache[p][1].successful_endpoint \notin Urls

\* C21: every URL that a call contacts, and the URL it returns, is a
\* configured endpoint, whatever the cache file holds; a call with a valid
\* record that names another URL makes no attempt on it and goes on to the
\* first endpoint of the list.
C21_OnlyConfiguredEndpoints ==
    [][ \A p \in Procs :
          /\ \A i \in 1..Len(attempts[p]) : attempts[p][i].url \in Urls
          /\ det[p] # None => det[p][1][1] \in Urls
          /\ (ValidUnknownUrl(p) /\ pc'[p] # pc[p]) =>
                /\ pc'[p] = "probe"
                /\ idx'[p] = 1
                /\ attempts'[p] = <<>> ]_vars

\* C21 witness: a call holds a record of its credential, one second old,
\* that names a URL which is not configured; it has passed the cached branch
\* without an attempt and is about to try the first endpoint of the list.
C21_Witness ==
    /\ pc[P1] = "probe"
    /\ idx[P1] = 1
    /\ attempts[P1] = <<>>
    /\ cache[P1] # None
    /\ cache[P1][1].successful_endpoint = OtherUrl
    /\ cache[P1][1].api_key_hash = hash_api_key(api_key[P1][1])
    /\ cache[P1][1].last_success_time = 0
    /\ io[P1].at = 1
    /\ now = 1

\* p holds a record of its credential whose last_success_time is later than
\* the time t
FutureRecord(p, t) ==
    /\ cache[p] # None
    /\ cache[p][1].api_key_hash = hash_api_key(api_key[p][1])
    /\ cache[p][1].last_success_time > t

\* C22: a record whose last_success_time is later than the clock is not
\* valid, although it carries the fingerprint of the call's credential: the
\* call makes no attempt on the cached endpoint and goes on to the first
\* endpoint of the list.
C22_FutureRecordInvalid ==
    [][ \A p \in Procs :
          /\ (pc[p] = "cached" /\ FutureRecord(p, now)) =>
                /\ ~ is_cache_valid(cache[p], api_key[p][1], now)
                /\ pc'[p] # pc[p] =>
                      /\ pc'[p] = "probe"
                      /\ idx'[p] = 1
                      /\ attempts'[p] = <<>>
          /\ (PastCachedBranch(p) /\ FutureRecord(p, io[p].at)) =>
                ~ TriedCached(p) ]_vars

\* C22 witness: at time 1 a call holds a record of its credential, naming
\* "share", with last_success_time one day after the epoch; it has passed
\* the cached branch without an attempt.
C22_Witness ==
    /\ pc[P1] = "probe"
    /\ idx[P1] = 1
    /\ attempts[P1] = <<>>
    /\ FutureRecord(P1, io[P1].at)
    /\ io[P1].at = 1
    /\ cache[P1][1].last_success_time = Day
    /\ cache[P1][1].successful_endpoint = ShareUrl

\* the step is the start of a call of p with no credential source present
StartWithoutSource(p) ==
    pc[p] = "idle" /\ pc'[p] # "idle" /\ sources' = NoSources

\* C23: a call of collect that resolves no credential has no effects: it
\* returns None at once, contacts no endpoint, builds no detector (the cache
\* file is not read) and writes nothing; the cache file is as it was when
\* the call has returned.
C23_NoCredentialNoEffects ==
    [][ \A p \in Procs :
          /\ StartWithoutSource(p) =>
                /\ api_key'[p] = None
                /\ pc'[p] = "done"
                /\ ret'[p] = None
                /\ det'[p] = None
                /\ attempts'[p] = <<>>
                /\ cache'[p] = None
                /\ io'[p] = NoIo
                /\ disk' = disk
          /\ (pc[p] = "done" /\ api_key[p] = None) =>
                /\ attempts[p] = <<>>
                /\ io[p] = NoIo
                /\ disk' = disk ]_vars

\* C23 witness: the previous call succeeded on "share" and wrote its
\* record; the current call found no credential and returned None; the
\* cache file still holds that record.
C23_Witness ==
    /\ pc[P1] = "done"
    /\ sources = NoSources
    /\ api_key[P1] = None
    /\ ret[P1] = None
    /\ attempts[P1] = <<>>
    /\ io[P1] = NoIo
    /\ prev[P1].wrote
    /\ prev[P1].sel = Some(ShareUrl)
    /\ disk.kind = "json"
    /\ disk.rec.successful_endpoint = ShareUrl
    /\ disk.rec.last_success_time = prev[P1].at

\* the step ends p's call with a success
SuccessStep(p) == pc[p] # "done" /\ pc'[p] = "done" /\ det'[p] # None

\* the cache file after the step is the whole record of p's call: the
\* record of p's detector, with the fingerprint of p's credential and the
\* endpoint whose attempt by p succeeded
WholeRecordOf(p) ==
    /\ io'[p].write = "ok"
    /\ disk' = FileJson(cache'[p][1])
    /\ disk'.rec.api_key_hash = hash_api_key(api_key[p][1])
    /\ disk'.rec.successful_endpoint = det'[p][1][1]
    /\ attempts'[p][Len(attempts'[p])].ok
    /\ attempts'[p][Len(attempts'[p])].url = det'[p][1][1]

====
